---- MODULE Spec2Model ----
(***************************************************************************)
(* Property-tax sync pipeline: the orchestrator of                         *)
(* scripts/sync_all_taxes.py driving the adapter scripts                   *)
(* (lookup_scc_tax.py, lookup_providence_tax.py, lookup_vermont_tax.py)    *)
(* as subprocesses, and the callback endpoint the adapters POST to (Spec); *)
(* one adapter process on its own, lookup_nyc_tax.py included              *)
(* (AdapterSpec); the page parsers and callback payloads (ParseSpec); the  *)
(* camera-token refresh of scripts/nest-auto-refresh-token.py              *)
(* (RefreshSpec).                                                          *)
(***************************************************************************)
EXTENDS Integers, Sequences, FiniteSets, TLC

VARIABLES
    callback,    \* args.callback: "none", "valid" (well-formed URL), "malformed"
    dry_run,     \* args.dry_run
    provider,    \* args.provider: "none" or a provider name
    pc,          \* orchestrator position: "loop", "run" (inside subprocess.run), "done"
    total,       \* main(): total
    successful,  \* main(): successful
    results,     \* main(): results['properties']
    procs,       \* adapter subprocess of each roster property
    posts,       \* HTTP POSTs attempted against the callback endpoint, in order
    would_run,   \* number of "[DRY RUN] Would run" lines printed
    kind,        \* adapter script studied on its own: "scc", "providence", ... ("none" in an orchestrator run)
    flags,       \* its command line: [json, callback]
    page,        \* what the browser session gave it: the scraped page / scrape events
    step,        \* its position in main() / in the lookup function
    result,      \* the dict its lookup / parser returned
    payload,     \* the dict post_to_callback serialises
    out,         \* its standard output and exit status
    pushover,    \* nest-auto-refresh-token.py: Pushover users configured (0 also when PUSHOVER_TOKEN is unset)
    refresh_pc,  \* position in its main(): "extract", "validate", "encrypt", "update", "notify", "except", "done"
    token,       \* main(): token, <<>> before extraction
    probe,       \* what the validity probe answered: <<status code>> or <<"error">>
    valid,       \* what test_token_validity returned
    encrypted,   \* main(): encrypted
    db,          \* how the psql runs of update_database ended
    handler,     \* the except clause of main() that caught the failure, with error_msg
    notifications, \* requests.post calls to Pushover, in order
    calls,       \* the steps of main() begun so far, in order
    exit_code    \* what main() returned

\* Variables of the orchestrator run and of a single adapter studied on its own.
ovars == <<callback, dry_run, provider, pc, total, successful, results, procs, posts, would_run>>
avars == <<kind, flags, page, step, result, payload, out>>
nvars == <<pushover, refresh_pc, token, probe, valid, encrypted, db, handler, notifications,
           calls, exit_code>>

vars == <<callback, dry_run, provider, pc, total, successful, results, procs, posts, would_run,
          kind, flags, page, step, result, payload, out,
          pushover, refresh_pc, token, probe, valid, encrypted, db, handler, notifications,
          calls, exit_code>>

(***************************************************************************)
(* Configuration: the static roster                                        *)
(***************************************************************************)
\* Iteration order of the PROPERTIES dict (insertion order).
ProviderOrder == <<"santa_clara_county", "city_hall_systems", "vermont_nemrc">>

PROPERTIES ==
    [ santa_clara_county |-> <<"125 Dana Avenue">>,
      city_hall_systems  |-> <<"88 Williams St">>,
      vermont_nemrc      |-> <<"2055 Sunset Lake Rd", "1910 Sunset Lake Rd", "2001 Sunset Lake Rd">> ]

PropNames == UNION { {PROPERTIES[p][k] : k \in 1..Len(PROPERTIES[p])} : p \in DOMAIN PROPERTIES }

\* Values of --provider tried: absent, each configured provider, a name not in the roster.
ProviderArgs == {"none", "santa_clara_county", "city_hall_systems", "vermont_nemrc", "nyc"}

TIMEOUT_ERROR == "Script timed out after 120 seconds"

RECURSIVE SelectedFrom(_, _)
\* The (provider, property) pairs main() visits: outer loop over PROPERTIES.items()
\* skipping providers other than --provider, inner loop over the group's list.
SelectedFrom(g, prov) ==
    IF g > Len(ProviderOrder) THEN <<>>
    ELSE LET p == ProviderOrder[g]
             grp == IF prov # "none" /\ p # prov THEN <<>>
                    ELSE [k \in 1..Len(PROPERTIES[p]) |-> [provider |-> p, name |-> PROPERTIES[p][k]]]
         IN grp \o SelectedFrom(g + 1, prov)

Selected_Reversed(prov) ==
    LET s == SelectedFrom(1, prov) IN [k \in 1..Len(s) |-> s[Len(s) + 1 - k]]

Selected_NoFilter(prov) == SelectedFrom(1, "none")

Selected(prov) == SelectedFrom(1, prov)

(***************************************************************************)
(* run_scraper: reading the adapter's output                                *)
(***************************************************************************)
\* A stdout line is narration ("log") or the first line of the JSON document
\* printed by json.dumps (whole document kept as one token).
IsJsonStart(line) == line \in {"json_true", "json_false"}

\* for i, line in enumerate(output_lines): if line.strip().startswith('{'): json_start = i; break
JsonStart(stdout) ==
    IF \E k \in 1..Len(stdout) : IsJsonStart(stdout[k])
    THEN CHOOSE k \in 1..Len(stdout) : IsJsonStart(stdout[k]) /\ \A j \in 1..(k-1) : ~IsJsonStart(stdout[j])
    ELSE 0

\* json.loads('\n'.join(output_lines[json_start:])) succeeds only when nothing but
\* the document follows json_start; trailing narration raises JSONDecodeError.
JsonLoads(stdout) ==
    LET js == JsonStart(stdout) IN
    IF js = 0 THEN [ok |-> FALSE, success |-> FALSE]
    ELSE IF js = Len(stdout) THEN [ok |-> TRUE, success |-> stdout[js] = "json_true"]
    ELSE [ok |-> FALSE, success |-> FALSE]

\* 'success': result.returncode == 0
FallbackSuccess(returncode) == returncode = 0

\* The dict run_scraper returns for a subprocess that ended by itself.
ParseOutput(stdout, returncode) ==
    LET j == JsonLoads(stdout) IN
    IF j.ok
    THEN [kind |-> "json", success |-> j.success,
          error |-> IF j.success THEN "none" ELSE "adapter"]
    ELSE [kind |-> "fallback", success |-> FallbackSuccess(returncode), error |-> "none"]

\* except Exception as e: return {'success': False, 'error': str(e)}
ExceptionResult == [kind |-> "exception", success |-> FALSE, error |-> "exception"]

TimeoutResult_Generic == ExceptionResult

\* except subprocess.TimeoutExpired: return {'success': False, 'error': 'Script timed out ...'}
TimeoutResult == [kind |-> "timeout", success |-> FALSE, error |-> TIMEOUT_ERROR]

\* if dry_run: return {'success': True, 'dry_run': True}
DryRunResult == [kind |-> "dry_run", success |-> TRUE, error |-> "none"]

(***************************************************************************)
(* State                                                                   *)
(***************************************************************************)
NoProc == [status |-> "none", stdout |-> <<>>, returncode |-> 0, result |-> FALSE]

Alive == {"lookup", "looked", "posting", "blocked"}

Cur == Selected(provider)[total]

\* An unset dict-valued variable (no key at all).
None == <<>>

\* Nothing printed yet; exit is meaningful once step is "exited" or "dead".
NoOutput == [stdout |-> <<>>, exit |-> 0]

\* No adapter is being studied on its own.
AdapterIdle ==
    /\ kind = "none"
    /\ flags = [json |-> FALSE, callback |-> "none"]
    /\ page = None
    /\ step = "off"
    /\ result = None
    /\ payload = None
    /\ out = NoOutput

\* The token refresh is not running.
NoDb == [docker |-> "not_run", psql |-> "not_run"]

RefreshIdle ==
    /\ pushover = 0
    /\ refresh_pc = "off"
    /\ token = <<>>
    /\ probe = <<>>
    /\ valid = <<>>
    /\ encrypted = <<>>
    /\ db = NoDb
    /\ handler = <<>>
    /\ notifications = <<>>
    /\ calls = <<>>
    /\ exit_code = <<>>

Init ==
    /\ RefreshIdle
    /\ callback \in {"none", "valid", "malformed"}
    /\ dry_run \in BOOLEAN
    /\ provider \in ProviderArgs
    /\ pc = "loop"
    /\ total = 0
    /\ successful = 0
    /\ results = <<>>
    /\ procs = [n \in PropNames |-> NoProc]
    /\ posts = <<>>
    /\ would_run = 0
    /\ AdapterIdle

(***************************************************************************)
(* Orchestrator: main() loop body and run_scraper                          *)
(***************************************************************************)
AppendOutcome_Overwrite(rs, o) ==
    IF Len(rs) > 0 THEN [rs EXCEPT ![Len(rs)] = o] ELSE Append(rs, o)

\* results['properties'].append({...})
AppendOutcome(rs, o) == Append(rs, o)

Record_SuccessOnly(q, data) ==
    /\ successful' = IF data.success THEN successful + 1 ELSE successful
    /\ results' = IF data.success
                  THEN Append(results, [name |-> q.name, provider |-> q.provider,
                                        success |-> data.success, data |-> data])
                  ELSE results

\* Rest of the loop body after run_scraper returned `data` for property q:
\* success = result.get('success', False); count it; append the outcome.
Record(q, data) ==
    /\ successful' = IF data.success THEN successful + 1 ELSE successful
    /\ results' = AppendOutcome(results,
                     [name |-> q.name, provider |-> q.provider,
                      success |-> data.success, data |-> data])

\* Loop iteration under --dry-run: run_scraper prints the planned command and
\* returns {'success': True, 'dry_run': True} without starting anything.
DryRunProperty ==
    /\ pc = "loop"
    /\ dry_run
    /\ total < Len(Selected(provider))
    /\ total' = total + 1
    /\ would_run' = would_run + 1
    /\ Record(Selected(provider)[total + 1], DryRunResult)
    /\ UNCHANGED <<nvars, avars, callback, dry_run, provider, pc, procs, posts>>

\* Loop iteration start: total += 1, build cmd, enter subprocess.run.
StartProperty_IgnoreDryRun ==
    /\ pc = "loop"
    /\ total < Len(Selected(provider))
    /\ total' = total + 1
    /\ pc' = "run"
    /\ UNCHANGED <<nvars, avars, callback, dry_run, provider, successful, results, procs, posts, would_run>>

StartProperty ==
    /\ pc = "loop"
    /\ ~dry_run
    /\ total < Len(Selected(provider))
    /\ total' = total + 1
    /\ pc' = "run"
    /\ UNCHANGED <<nvars, avars, callback, dry_run, provider, successful, results, procs, posts, would_run>>

\* subprocess.run starts the child: python3 <script> <args> --json [--callback url]
Spawn ==
    /\ pc = "run"
    /\ procs[Cur.name].status = "none"
    /\ procs' = [procs EXCEPT ![Cur.name].status = "lookup"]
    /\ UNCHANGED <<nvars, avars, callback, dry_run, provider, pc, total, successful, results, posts, would_run>>

\* subprocess.run raises before a child exists (except Exception branch).
SpawnFails ==
    /\ pc = "run"
    /\ procs[Cur.name].status = "none"
    /\ Record(Cur, ExceptionResult)
    /\ pc' = "loop"
    /\ UNCHANGED <<nvars, avars, callback, dry_run, provider, total, procs, posts, would_run>>

KillOnTimeout_Leak(p) == p

\* subprocess.run kills the child when the timeout expires; its output is dropped.
KillOnTimeout(p) == [status |-> "killed", stdout |-> <<>>, returncode |-> 0 - 9, result |-> FALSE]

AfterTimeoutPc_Stall == "run"

\* except subprocess.TimeoutExpired: return {...} -- control goes back to the loop.
AfterTimeoutPc == "loop"

\* The child is still alive 120 s after its start: TimeoutExpired.
Timeout ==
    /\ pc = "run"
    /\ procs[Cur.name].status \in Alive
    /\ procs' = [procs EXCEPT ![Cur.name] = KillOnTimeout(@)]
    /\ pc' = AfterTimeoutPc
    /\ Record(Cur, TimeoutResult)
    /\ UNCHANGED <<nvars, avars, callback, dry_run, provider, total, posts, would_run>>

\* The child ended by itself within the bound: parse its stdout.
CollectExit ==
    /\ pc = "run"
    /\ procs[Cur.name].status = "exited"
    /\ Record(Cur, ParseOutput(procs[Cur.name].stdout, procs[Cur.name].returncode))
    /\ pc' = "loop"
    /\ UNCHANGED <<nvars, avars, callback, dry_run, provider, total, procs, posts, would_run>>

\* Loop exhausted: print the summary, fill completed_at / total / successful.
Finish ==
    /\ pc = "loop"
    /\ total = Len(Selected(provider))
    /\ pc' = "done"
    /\ UNCHANGED <<nvars, avars, callback, dry_run, provider, total, successful, results, procs, posts, would_run>>

(***************************************************************************)
(* Adapter subprocess: main() of a lookup script run with --json           *)
(***************************************************************************)
\* lookup_*_tax() returns a result dict (success or a caught error); the
\* narration it printed is on stdout.
AdapterLookup(n, s) ==
    /\ procs[n].status = "lookup"
    /\ procs' = [procs EXCEPT ![n] = [status |-> "looked", stdout |-> <<"log">>,
                                      returncode |-> 0, result |-> s]]
    /\ UNCHANGED <<nvars, avars, callback, dry_run, provider, pc, total, successful, results, posts, would_run>>

\* An exception escapes lookup_*_tax() (browser launch, screenshot in the
\* except handler): traceback on stderr, exit status 1, no JSON printed.
AdapterCrash(n) ==
    /\ procs[n].status = "lookup"
    /\ procs' = [procs EXCEPT ![n] = [status |-> "exited", stdout |-> <<"log">>,
                                      returncode |-> 1, result |-> FALSE]]
    /\ UNCHANGED <<nvars, avars, callback, dry_run, provider, pc, total, successful, results, posts, would_run>>

\* if args.json: print(json.dumps(result, indent=2));
\* if args.callback: print("\n[...] Posting to callback: ..."), else return.
AdapterPrintJson(n) ==
    /\ procs[n].status = "looked"
    /\ LET js == IF procs[n].result THEN "json_true" ELSE "json_false" IN
       procs' = [procs EXCEPT ![n] =
                   IF callback = "none"
                   THEN [@ EXCEPT !.status = "exited", !.stdout = Append(@, js)]
                   ELSE [@ EXCEPT !.status = "posting", !.stdout = Append(@, js) \o <<"log">>]]
    /\ UNCHANGED <<nvars, avars, callback, dry_run, provider, pc, total, successful, results, posts, would_run>>

\* Outcomes of urllib.request.urlopen(req): a response with status 200, a
\* response with another 2xx status, an exception (HTTPError, URLError), or
\* no answer at all (urlopen is called without a timeout).
Responses == {"200", "non200", "error", "hang"}

PostFailureNext_Retry == "posting"

\* post_to_callback returns False after a failed POST and main() returns.
PostFailureNext == "exited"

\* post_to_callback with a well-formed URL: one urlopen call.
AdapterPost(n, r) ==
    /\ procs[n].status = "posting"
    /\ callback = "valid"
    /\ posts' = Append(posts, [name |-> n, success |-> procs[n].result, resp |-> r])
    /\ procs' = [procs EXCEPT ![n] =
                   IF r = "hang" THEN [@ EXCEPT !.status = "blocked"]
                   ELSE [@ EXCEPT !.status = IF r = "200" THEN "exited" ELSE PostFailureNext,
                                  !.stdout = Append(@, "log")]]
    /\ UNCHANGED <<nvars, avars, callback, dry_run, provider, pc, total, successful, results, would_run>>

\* post_to_callback with a malformed URL: urllib.request.Request raises
\* ValueError outside the try block; the process dies with exit status 1.
AdapterBadUrl(n) ==
    /\ procs[n].status = "posting"
    /\ callback = "malformed"
    /\ procs' = [procs EXCEPT ![n] = [@ EXCEPT !.status = "exited", !.returncode = 1]]
    /\ UNCHANGED <<nvars, avars, callback, dry_run, provider, pc, total, successful, results, posts, would_run>>

Adapter ==
    \E n \in PropNames :
        \/ \E s \in BOOLEAN : AdapterLookup(n, s)
        \/ AdapterCrash(n)
        \/ AdapterPrintJson(n)
        \/ \E r \in Responses : AdapterPost(n, r)
        \/ AdapterBadUrl(n)

Orchestrator ==
    \/ DryRunProperty
    \/ StartProperty
    \/ Spawn
    \/ SpawnFails
    \/ Timeout
    \/ CollectExit
    \/ Finish

Next == Orchestrator \/ Adapter

Spec == Init /\ [][Next]_vars

\* The timer of subprocess.run always expires and the orchestrator's own steps
\* are always taken; nothing obliges an adapter to make progress.
FairSpec == Spec /\ WF_vars(Orchestrator)

TypeOK ==
    /\ pc \in {"loop", "run", "done"}
    /\ total \in 0..Len(Selected(provider))
    /\ successful \in 0..total
    /\ Len(results) <= total

(***************************************************************************)
(* One adapter process on its own: main() and the lookup function of       *)
(* lookup_scc_tax.py, lookup_providence_tax.py, lookup_vermont_tax.py and  *)
(* lookup_nyc_tax.py (same control flow in all of them)                    *)
(***************************************************************************)
Kinds == {"scc", "providence", "dummerston", "brattleboro", "nyc"}

\* The orchestrator is not running.
OrchIdle ==
    /\ callback = "none"
    /\ dry_run = FALSE
    /\ provider = "none"
    /\ pc = "off"
    /\ total = 0
    /\ successful = 0
    /\ results = <<>>
    /\ procs = [n \in PropNames |-> NoProc]
    /\ posts = <<>>
    /\ would_run = 0

\* A command line: --json or not, --callback absent / well-formed / malformed
\* (lookup_nyc_tax.py has no --callback option).
AdapterInit ==
    /\ OrchIdle
    /\ RefreshIdle
    /\ kind \in Kinds
    /\ flags \in [json : BOOLEAN, callback : {"none", "valid", "malformed"}]
    /\ kind = "nyc" => flags.callback = "none"
    /\ page = None
    /\ step = "start"
    /\ result = None
    /\ payload = None
    /\ out = NoOutput

\* with sync_playwright() as p: browser = p.chromium.launch(...); page = ...;
\* try: print("[...] Navigating to ...") -- printed whatever the flags are.
LookupEnter ==
    /\ step = "start"
    /\ step' = "try"
    /\ out' = [out EXCEPT !.stdout = Append(@, "log")]
    /\ UNCHANGED <<nvars, ovars, kind, flags, page, result, payload>>

\* The browser cannot be launched: raised before the try block is entered.
LookupLaunchFails ==
    /\ step = "start"
    /\ step' = "dead"
    /\ out' = [out EXCEPT !.exit = 1]
    /\ UNCHANGED <<nvars, ovars, kind, flags, page, result, payload>>

\* The try block runs to a return: the parsed result, or the "not found" /
\* "could not parse" result with success False and an error message.
LookupReturns(s) ==
    /\ step = "try"
    /\ step' = "returned"
    /\ result' = [success |-> s, error |-> IF s THEN "" ELSE "not_found"]
    /\ UNCHANGED <<nvars, ovars, kind, flags, page, payload, out>>

\* A navigation / element call raises inside the try block.
LookupRaises ==
    /\ step = "try"
    /\ step' = "except"
    /\ UNCHANGED <<nvars, ovars, kind, flags, page, result, payload, out>>

\* except Exception as e: page.screenshot(...); browser.close();
\* return {'success': False, 'error': str(e), ...}
HandlerReturns ==
    /\ step = "except"
    /\ step' = "returned"
    /\ result' = [success |-> FALSE, error |-> "exception"]
    /\ UNCHANGED <<nvars, ovars, kind, flags, page, payload, out>>

\* page.screenshot(...) or browser.close() raises inside the except block:
\* nothing catches it, the process ends with a traceback and status 1.
HandlerRaises ==
    /\ step = "except"
    /\ step' = "dead"
    /\ out' = [out EXCEPT !.exit = 1]
    /\ UNCHANGED <<nvars, ovars, kind, flags, page, result, payload>>

\* main(): print the JSON document or the human-readable report; then either
\* announce the callback POST or return (exit status 0).
MainPrint ==
    /\ step = "returned"
    /\ LET doc == IF flags.json
                  THEN (IF result.success THEN "json_true" ELSE "json_false")
                  ELSE "log"
       IN IF flags.callback = "none"
          THEN /\ step' = "exited"
               /\ out' = [stdout |-> Append(out.stdout, doc), exit |-> 0]
          ELSE /\ step' = "posting"
               /\ out' = [out EXCEPT !.stdout = Append(@, doc) \o <<"log">>]
    /\ UNCHANGED <<nvars, ovars, kind, flags, page, result, payload>>

\* post_to_callback: urlopen answers or raises (one more narration line, then
\* main() returns, exit status 0), or never answers.
MainPost(r) ==
    /\ step = "posting"
    /\ flags.callback = "valid"
    /\ payload' = [success |-> result.success, resp |-> r]
    /\ IF r = "hang"
       THEN step' = "blocked" /\ out' = out
       ELSE step' = "exited" /\ out' = [stdout |-> Append(out.stdout, "log"), exit |-> 0]
    /\ UNCHANGED <<nvars, ovars, kind, flags, page, result>>

\* post_to_callback: urllib.request.Request(url) raises ValueError.
MainBadUrl ==
    /\ step = "posting"
    /\ flags.callback = "malformed"
    /\ step' = "dead"
    /\ out' = [out EXCEPT !.exit = 1]
    /\ UNCHANGED <<nvars, ovars, kind, flags, page, result, payload>>

AdapterNext ==
    \/ LookupEnter
    \/ LookupLaunchFails
    \/ \E s \in BOOLEAN : LookupReturns(s)
    \/ LookupRaises
    \/ HandlerReturns
    \/ HandlerRaises
    \/ MainPrint
    \/ \E r \in Responses : MainPost(r)
    \/ MainBadUrl

AdapterSpec == AdapterInit /\ [][AdapterNext]_vars

(***************************************************************************)
(* The parsers and the callback payloads.  A page is the text the browser  *)
(* returned, reduced to the features the regular expressions look at.  A   *)
(* dict key that may be missing holds <<>> when absent / None and <<v>>    *)
(* when it has the value v.  Money is counted in tenths of a cent.         *)
(***************************************************************************)
MaxItems == 5   \* year headers and installment blocks on a Santa Clara page
MaxRows == 3    \* payment rows on an NYC payment-history page
MaxLines == 3   \* lines of a free-text page given to the regex parsers

SeqUpTo(S, n) == UNION {[1..k -> S] : k \in 0..n}

\* float(s) on the text as matched: a "$" or a "," in it makes float() raise.
Float_Raw(s) ==
    CASE s \in {"0", "0.00"} -> <<0>>
      [] s = "12.50" -> <<12500>>
      [] s = "25.00" -> <<25000>>
      [] OTHER -> <<>>

\* float(s.replace('$', '').replace(',', '')): <<value>>, or <<>> when float() raises.
Float(s) ==
    CASE s \in {"0", "0.00", "$0.00"} -> <<0>>
      [] s = "12.50" -> <<12500>>
      [] s = "25.00" -> <<25000>>
      [] s = "1,234.56" -> <<1234560>>
      [] s = "9,999.00" -> <<9999000>>
      [] s = "250,000.00" -> <<250000000>>
      [] s = "1,250.00" -> <<1250000>>
      [] s = "4,321.10" -> <<4321100>>
      [] s = "$5,000.00" -> <<5000000>>
      [] s = "250,000" -> <<250000000>>
      [] s = "310,000" -> <<310000000>>
      [] OTHER -> <<>>

\* Python truth value of d.get(key) when the value is a number / a string.
Truthy(opt) == opt # <<>> /\ opt[1] # 0

TruthyStr(opt) == opt # <<>> /\ opt[1] # ""

RECURSIVE SumAmounts(_)
SumAmounts(insts) ==
    IF insts = <<>> THEN 0 ELSE insts[1].amount + SumAmounts(Tail(insts))

RECURSIVE Flatten(_)
Flatten(ss) == IF ss = <<>> THEN <<>> ELSE ss[1] \o Flatten(Tail(ss))

\* The slice s[:n].
Take(s, n) == SubSeq(s, 1, IF Len(s) < n THEN Len(s) ELSE n)

\* datetime.now(): the calendar year in which the scrape runs.
Now == [year |-> 2026]

\* ---- lookup_scc_tax.py ----
PARCEL_NUMBER == "274-15-034"

YearHeaders == {<<"2024/2025 Annual Tax Bill">>, <<"2025/2026 Annual Tax Bill">>}

\* An installment block as the site prints it, with or without its header line.
Blocks ==
    {hdr \o <<"Tax Amount", a, "Last Payment Date", "N/A">> :
        hdr \in {<<>>, <<"Installment 1">>, <<"Installment 2">>},
        a \in {"$0.00", "$5,000.00"}}

\* body_text: whether "125 DANA" is in it, and its lines.
SccPages ==
    {[addr |-> FALSE, lines |-> <<>>]} \cup
    {[addr |-> TRUE, lines |-> Flatten(items)] : items \in SeqUpTo(YearHeaders \cup Blocks, MaxItems)}

\* re.match(r'(\d{4}/\d{4}) Annual Tax Bill', line): <<group(1)>> or <<>>.
YearMatch(line) ==
    CASE line = "2024/2025 Annual Tax Bill" -> <<"2024/2025">>
      [] line = "2025/2026 Annual Tax Bill" -> <<"2025/2026">>
      [] OTHER -> <<>>

\* The labels whose following line is consumed without touching number or amount.
OtherLabels == {"Additional Charges", "Balance Due", "Pay By Date", "Status"}

\* The while loop of parse_tax_data from line i on; st holds current_year,
\* current_installment, installments and result['tax_years'].
RECURSIVE ParseLoop(_, _, _)
ParseLoop(lines, i, st) ==
    IF i > Len(lines) THEN st
    ELSE LET line == lines[i]
             more == i + 1 <= Len(lines)
         IN
         IF YearMatch(line) # <<>>
         THEN ParseLoop(lines, i + 1,
                  [st EXCEPT !.tax_years = IF st.current_year # <<>> /\ st.installments # <<>>
                                           THEN Append(@, [tax_year |-> st.current_year[1],
                                                           installments |-> st.installments])
                                           ELSE @,
                             !.current_year = YearMatch(line),
                             !.installments = <<>>])
         ELSE IF line \in {"Installment 1", "Installment 2"}
         THEN ParseLoop(lines, i + 1,
                  [st EXCEPT !.current_installment =
                      <<[number |-> IF line = "Installment 1" THEN 1 ELSE 2, amount |-> <<>>]>>])
         ELSE IF st.current_installment # <<>> /\ line = "Tax Amount" /\ more
         THEN ParseLoop(lines, i + 2,
                  IF Float(lines[i + 1]) # <<>>
                  THEN [st EXCEPT !.current_installment[1].amount = Float(lines[i + 1])]
                  ELSE st)
         ELSE IF st.current_installment # <<>> /\ line \in OtherLabels /\ more
         THEN ParseLoop(lines, i + 2, st)
         ELSE IF st.current_installment # <<>> /\ line = "Last Payment Date" /\ more
         THEN LET cur == st.current_installment[1]
              IN ParseLoop(lines, i + 2,
                     [st EXCEPT !.installments = IF Truthy(cur.amount)
                                                 THEN Append(@, [number |-> cur.number,
                                                                 amount |-> cur.amount[1]])
                                                 ELSE @,
                                !.current_installment =
                                    <<[number |-> cur.number + 1, amount |-> <<>>]>>])
         ELSE ParseLoop(lines, i + 1, st)

parse_tax_data(lines) ==
    LET st == ParseLoop(lines, 1, [current_year |-> <<>>, current_installment |-> <<>>,
                                   installments |-> <<>>, tax_years |-> <<>>])
    IN [success |-> TRUE,
        error |-> <<>>,
        parcel_number |-> <<PARCEL_NUMBER>>,
        tax_years |-> <<IF st.current_year # <<>> /\ st.installments # <<>>
                        THEN Append(st.tax_years, [tax_year |-> st.current_year[1],
                                                   installments |-> st.installments])
                        ELSE st.tax_years>>]

\* The try block of lookup_property_tax once body_text is read.
lookup_property_tax(pg) ==
    IF ~pg.addr
    THEN [success |-> FALSE, error |-> <<"Property not found in search results">>,
          parcel_number |-> <<>>, tax_years |-> <<>>]
    ELSE parse_tax_data(pg.lines)

\* inst -> {'installment_number': inst.get('number'), 'amount': inst.get('amount'), ...}
FormatInstallments(insts) ==
    [k \in 1..Len(insts) |->
        [installment_number |-> insts[k].number,
         amount |-> insts[k].amount,
         due_date |-> IF "due_date" \in DOMAIN insts[k] THEN <<insts[k].due_date>> ELSE <<>>,
         status |-> IF "status" \in DOMAIN insts[k] THEN insts[k].status ELSE "unknown"]]

\* int(tax_year.split('/')[0])
YearStart(tax_year) ==
    CASE tax_year = "2024/2025" -> 2024
      [] tax_year = "2025/2026" -> 2025

\* post_to_callback of lookup_scc_tax.py: the dict it serialises.
SccPayload(data) ==
    LET years == IF data.tax_years = <<>> THEN <<>> ELSE data.tax_years[1]
        installments == FormatInstallments(
                            Flatten([k \in 1..Len(years) |-> years[k].installments]))
    IN [keys |-> {"provider", "property_id", "parcel_number", "address", "tax_year",
                  "annual_tax", "installments", "success", "error", "raw_data"},
        provider |-> "santa_clara_county",
        parcel_number |-> <<PARCEL_NUMBER>>,
        tax_year |-> <<IF years # <<>> THEN YearStart(years[1].tax_year) ELSE Now.year>>,
        assessed_value |-> <<>>,
        annual_tax |-> <<SumAmounts(Take(installments, 2))>>,
        installments |-> <<installments>>,
        success |-> data.success,
        error |-> data.error]

\* ---- lookup_providence_tax.py ----
\* The results page: the parcel number pattern if one occurs, whether the
\* searched address is listed, the first "Due mm/dd/yyyy: $ amount" match,
\* and the year matched by r'\b(202[4-9])\b.*TAX'.
ProvidencePages ==
    [parcel : {<<>>, <<"010-0123-0000">>},
     address : BOOLEAN,
     due : {<<>>} \cup {<<[date |-> "07/24/2026", amount |-> a]>> : a \in {"0.00", "1,250.00"}},
     year : {<<>>, <<2025>>}]

\* The month/day of the generated quarterly schedule (its year part is left out).
DueDates == <<"07/24", "10/24", "01/24", "04/24">>

parse_providence_results(pg) ==
    LET next_due_amount == IF pg.due = <<>> THEN <<>> ELSE Float(pg.due[1].amount)
        has_amount == Truthy(next_due_amount)
        quarterly == next_due_amount[1]
        full_balance == <<>>    \* no line of the parser ever sets result['full_balance']
        ok == TruthyStr(pg.parcel) \/ Truthy(full_balance)
    IN [success |-> ok,
        error |-> IF ok THEN <<>> ELSE <<"Could not parse tax information from results">>,
        parcel_number |-> pg.parcel,
        tax_year |-> IF pg.year # <<>> THEN pg.year ELSE <<Now.year>>,
        total_assessed_value |-> <<>>,
        next_due_date |-> IF pg.due = <<>> THEN <<>> ELSE <<pg.due[1].date>>,
        next_due_amount |-> next_due_amount,
        quarterly_amount |-> IF has_amount THEN <<quarterly>> ELSE <<>>,
        annual_tax |-> IF has_amount THEN <<quarterly * 4>> ELSE <<>>,
        installments |-> IF has_amount
                         THEN <<[k \in 1..4 |-> [number |-> k, amount |-> quarterly,
                                                 due_date |-> DueDates[k],
                                                 status |-> "unknown"]]>>
                         ELSE <<>>]

\* post_to_callback of lookup_providence_tax.py.
ProvidencePayload(data) ==
    [keys |-> {"provider", "property_id", "parcel_number", "address", "tax_year",
               "assessed_value", "annual_tax", "quarterly_amount", "owner",
               "installments", "success", "error", "raw_data"},
     provider |-> "city_hall_systems",
     parcel_number |-> data.parcel_number,
     tax_year |-> data.tax_year,
     assessed_value |-> data.total_assessed_value,
     annual_tax |-> data.annual_tax,
     installments |-> <<FormatInstallments(IF data.installments = <<>> THEN <<>>
                                           ELSE data.installments[1])>>,
     success |-> data.success,
     error |-> data.error]

\* ---- lookup_vermont_tax.py ----
\* How lookup_dummerston_tax got from the search results to a detail page:
\*   "row"      a row holds the street number and name, its link was clicked;
\*   "row_first" such a row has no link, the first "View Detail" link was clicked;
\*   "first"    no row matches, the first "View Detail" link was clicked;
\*   "none"     no row matches and there is no "View Detail" link.
Searches == {"row", "row_first", "first", "none"}

\* The search results and the NEMRC detail page opened from them: whether
\* "SPAN: ddd-ddd-ddddd" and "Parcel ID: ..." occur on it, the numbers after
\* "Total" and after "Tax", and the tax year it states, if any.
NemrcPages ==
    [search : Searches,
     span : {<<>>, <<"195-061-10123">>},
     parcel_id : {<<>>, <<"000453">>},
     total : {<<>>, <<"0">>, <<"250,000">>},
     tax : {<<>>, <<"0">>, <<"4,321.10">>},
     year : {<<>>, <<2025>>}]

parse_nemrc_property(pg) ==
    LET total_assessed_value == IF pg.total = <<>> THEN <<>> ELSE Float(pg.total[1])
        annual_tax == IF pg.tax = <<>> THEN <<>> ELSE Float(pg.tax[1])
        ok == TruthyStr(pg.span) \/ TruthyStr(pg.parcel_id) \/ Truthy(total_assessed_value)
    IN [success |-> ok,
        error |-> IF ok THEN <<>> ELSE <<"Could not parse property information from results">>,
        span_number |-> pg.span,
        parcel_id |-> pg.parcel_id,
        total_assessed_value |-> total_assessed_value,
        annual_tax |-> annual_tax,
        installments |-> IF annual_tax = <<>> THEN <<>>
                         ELSE <<[k \in 1..2 |-> [number |-> k, amount |-> annual_tax[1] \div 2]]>>]

\* The try block of lookup_dummerston_tax once the search results are loaded.
lookup_dummerston_tax(pg) ==
    IF pg.search = "none"
    THEN [success |-> FALSE,
          error |-> <<"No properties found matching search criteria">>,
          span_number |-> <<>>,
          parcel_id |-> <<>>,
          total_assessed_value |-> <<>>,
          annual_tax |-> <<>>,
          installments |-> <<>>]
    ELSE parse_nemrc_property(pg)

\* The AxisGIS page: whether the parcel id occurs in body_text, and the number
\* after "Total" / "Assessed" / "Value".
BrattleboroPages == [found : BOOLEAN, value : {<<>>, <<"0">>, <<"310,000">>}]

\* The result of lookup_brattleboro_tax once body_text is read.
lookup_brattleboro_tax(pg) ==
    [success |-> pg.found,
     error |-> IF pg.found THEN <<>> ELSE <<"Could not find parcel in AxisGIS results">>,
     span_number |-> <<>>,
     parcel_id |-> <<"00010009.000">>,    \* the --parcel argument
     total_assessed_value |-> IF pg.found /\ pg.value # <<>> THEN Float(pg.value[1]) ELSE <<>>,
     annual_tax |-> <<>>,
     installments |-> <<>>]

\* post_to_callback of lookup_vermont_tax.py (both towns): no 'installments' key.
VermontPayload(data) ==
    [keys |-> {"provider", "property_id", "parcel_number", "address", "tax_year",
               "assessed_value", "annual_tax", "owner", "success", "error", "raw_data"},
     provider |-> "vermont_nemrc",
     parcel_number |-> data.span_number,
     tax_year |-> <<Now.year>>,
     assessed_value |-> data.total_assessed_value,
     annual_tax |-> data.annual_tax,
     installments |-> <<>>,
     success |-> data.success,
     error |-> data.error]

\* ---- lookup_nyc_tax.py ----
\* The payment-history page: whether the "<number> ... STREET" header occurs,
\* and the rows matching payment_pattern (amount, year).
NycRows == [amount : {"0.00", "12.50"}, year : {2025, 2026}]

NycPages == [addr : BOOLEAN, rows : SeqUpTo(NycRows, MaxRows)]

\* payments when the test "if amount > 0" is left out: every matched row.
Payments_All(rows) == SelectSeq(rows, LAMBDA r : Float(r.amount) # <<>>)

\* payments: the rows whose amount is > 0, in page order.
Payments(rows) == SelectSeq(rows, LAMBDA r : Float(r.amount) # <<>> /\ Float(r.amount)[1] > 0)

\* by_year[y]['total'].
RECURSIVE YearTotal(_, _)
YearTotal(payments, y) ==
    IF payments = <<>> THEN 0
    ELSE (IF payments[1].year = y THEN Float(payments[1].amount)[1] ELSE 0)
         + YearTotal(Tail(payments), y)

\* The result of lookup_nyc_tax once body_text is read.
lookup_nyc_tax(pg) ==
    LET payments == Payments(pg.rows)
        years == {payments[k].year : k \in 1..Len(payments)}
        latest_year == CHOOSE y \in years : \A z \in years : z <= y
        by_year == [y \in years |->
                       [total |-> YearTotal(payments, y),
                        payments |-> SelectSeq(payments, LAMBDA r : r.year = y)]]
    IN IF years # {}
       THEN [success |-> TRUE, error |-> <<>>, address |-> pg.addr,
             payments_by_year |-> by_year,
             tax_year |-> <<latest_year>>, tax_amount |-> <<by_year[latest_year].total>>]
       ELSE [success |-> FALSE, error |-> <<"No payment history found">>, address |-> pg.addr,
             payments_by_year |-> by_year,
             tax_year |-> <<>>, tax_amount |-> <<>>]

\* ---- free page text given to the regex parsers ----
\* The lines a text is made of.
TextLines ==
    {"Amount Due: $1,234.56", "Due Date: 07/24/2026", "Amount Due: $9,999.00",
     "Total Due: $0.00", "Balance: $25.00", "Due 07/24/2026: $ 1,250.00",
     "Annual Tax: $250,000.00", "123 MAIN STREET"}

Texts == SeqUpTo(TextLines, MaxLines)

\* The digits after the "$" of a line: group(1) of r'\$\s*([\d,]+\.\d{2})'.
AmountOn(line) ==
    CASE line = "Amount Due: $1,234.56" -> <<"1,234.56">>
      [] line = "Amount Due: $9,999.00" -> <<"9,999.00">>
      [] line = "Total Due: $0.00" -> <<"0.00">>
      [] line = "Balance: $25.00" -> <<"25.00">>
      [] line = "Due 07/24/2026: $ 1,250.00" -> <<"1,250.00">>
      [] line = "Annual Tax: $250,000.00" -> <<"250,000.00">>
      [] OTHER -> <<>>

\* The label a line starts with, "" when it starts with none.
LabelOf(line) ==
    CASE line \in {"Amount Due: $1,234.56", "Amount Due: $9,999.00"} -> "Amount Due"
      [] line = "Total Due: $0.00" -> "Total Due"
      [] line = "Balance: $25.00" -> "Balance"
      [] line = "Annual Tax: $250,000.00" -> "Annual Tax"
      [] line = "Due Date: 07/24/2026" -> "Due Date"
      [] OTHER -> ""

\* group(1) of the pattern named pat on one line: r'<label>[:\s]*\$?([\d,]+\.?\d*)'
\* for an amount label, r'Due\s+Date[:\s]*(\d{1,2}[/-]\d{1,2}[/-]\d{2,4})' for
\* "Due Date", the generic dollar pattern for "$".
LineMatch(pat, line) ==
    IF pat = "$" THEN AmountOn(line)
    ELSE IF LabelOf(line) # pat THEN <<>>
    ELSE IF pat = "Due Date" THEN <<"07/24/2026">>
    ELSE AmountOn(line)

\* re.search(pattern, text): the first match in the text.
Search(pat, text) ==
    LET hits == SelectSeq(text, LAMBDA l : LineMatch(pat, l) # <<>>)
    IN IF hits = <<>> THEN <<>> ELSE LineMatch(pat, hits[1])

\* for pattern in patterns: match = re.search(...); amount = float(...);
\* if amount > 0 and amount < limit: accept and break.
RECURSIVE FirstInRange(_, _, _)
FirstInRange(patterns, text, limit) ==
    IF patterns = <<>> THEN <<>>
    ELSE LET match == Search(patterns[1], text)
             amount == Float(match[1])
         IN IF match # <<>> /\ amount # <<>> /\ amount[1] > 0 /\ amount[1] < limit
            THEN amount
            ELSE FirstInRange(Tail(patterns), text, limit)

\* amount_patterns of parse_nyc_bill and tax_patterns of parse_nyc_results.
amount_patterns ==
    <<"Amount Due", "Total Due", "Current Amount", "Tax Amount", "Quarterly Amount",
      "Balance", "$">>

tax_patterns ==
    <<"Tax Amount", "Annual Tax", "Property Tax", "Total Tax", "Amount Due",
      "Current Amount", "Quarterly Amount", "$">>

\* amount < 5000 and amount < 100000, in tenths of a cent.
BillLimit == 5000 * 1000

ResultsLimit == 100000 * 1000

parse_nyc_bill(text) ==
    LET tax_amount == FirstInRange(amount_patterns, text, BillLimit)
    IN [success |-> Truthy(tax_amount),
        error |-> IF Truthy(tax_amount) THEN <<>>
                  ELSE <<"Could not parse tax amount from bill">>,
        tax_amount |-> tax_amount,
        due_date |-> Search("Due Date", text)]

parse_nyc_results(text) ==
    LET tax_amount == FirstInRange(tax_patterns, text, ResultsLimit)
        address == IF \E k \in 1..Len(text) : text[k] = "123 MAIN STREET"
                   THEN <<"123 MAIN STREET">> ELSE <<>>
        ok == Truthy(tax_amount) \/ TruthyStr(address)
    IN [success |-> ok,
        error |-> IF ok THEN <<>> ELSE <<"Could not parse tax information from page">>,
        address |-> address,
        tax_amount |-> tax_amount]

\* What the regular expressions of parse_providence_results find in a text.
ProvidenceFeatures(text) ==
    LET hits == SelectSeq(text, LAMBDA l : l = "Due 07/24/2026: $ 1,250.00")
    IN [parcel |-> <<>>,
        address |-> FALSE,
        due |-> IF hits = <<>> THEN <<>>
                ELSE <<[date |-> "07/24/2026", amount |-> AmountOn(hits[1])[1]]>>,
        year |-> <<>>]

\* ---- one scrape: page text -> parser result -> callback payload ----
\* The parsers run on free text: parse_nyc_bill, parse_nyc_results and
\* parse_providence_results.
TextParsers == {"nyc_bill", "nyc_results", "providence_text"}

Pages(k) ==
    CASE k = "scc" -> SccPages
      [] k = "providence" -> ProvidencePages
      [] k = "dummerston" -> NemrcPages
      [] k = "brattleboro" -> BrattleboroPages
      [] k = "nyc" -> NycPages
      [] k \in TextParsers -> Texts

\* The browser has returned body_text; nothing is parsed yet.
ParseInit ==
    /\ OrchIdle
    /\ RefreshIdle
    /\ kind \in Kinds \cup TextParsers
    /\ page \in Pages(kind)
    /\ flags = [json |-> FALSE,
                callback |-> IF kind \in {"nyc"} \cup TextParsers THEN "none" ELSE "valid"]
    /\ step = "scraped"
    /\ result = None
    /\ payload = None
    /\ out = NoOutput

\* lookup_scc_tax.py main(): result = lookup_property_tax()
ParseScc ==
    /\ kind = "scc"
    /\ step = "scraped"
    /\ step' = "parsed"
    /\ result' = lookup_property_tax(page)
    /\ UNCHANGED <<nvars, ovars, kind, flags, page, payload, out>>

\* lookup_providence_tax(): result = parse_providence_results(body_text, address)
ParseProvidence ==
    /\ kind = "providence"
    /\ step = "scraped"
    /\ step' = "parsed"
    /\ result' = parse_providence_results(page)
    /\ UNCHANGED <<nvars, ovars, kind, flags, page, payload, out>>

\* lookup_vermont_tax.py main(): result = lookup_dummerston_tax(args.address)
ParseNemrc ==
    /\ kind = "dummerston"
    /\ step = "scraped"
    /\ step' = "parsed"
    /\ result' = lookup_dummerston_tax(page)
    /\ UNCHANGED <<nvars, ovars, kind, flags, page, payload, out>>

\* lookup_vermont_tax.py main(): result = lookup_brattleboro_tax(args.parcel or '', args.address)
ParseBrattleboro ==
    /\ kind = "brattleboro"
    /\ step = "scraped"
    /\ step' = "parsed"
    /\ result' = lookup_brattleboro_tax(page)
    /\ UNCHANGED <<nvars, ovars, kind, flags, page, payload, out>>

\* lookup_nyc_tax.py main(): result = lookup_nyc_tax(args.boro, args.block, args.lot)
ParseNyc ==
    /\ kind = "nyc"
    /\ step = "scraped"
    /\ step' = "parsed"
    /\ result' = lookup_nyc_tax(page)
    /\ UNCHANGED <<nvars, ovars, kind, flags, page, payload, out>>

\* parse_nyc_bill(text, boro, block, lot, pin)
ParseNycBill ==
    /\ kind = "nyc_bill"
    /\ step = "scraped"
    /\ step' = "parsed"
    /\ result' = parse_nyc_bill(page)
    /\ UNCHANGED <<nvars, ovars, kind, flags, page, payload, out>>

\* parse_nyc_results(text, boro, block, lot)
ParseNycResults ==
    /\ kind = "nyc_results"
    /\ step = "scraped"
    /\ step' = "parsed"
    /\ result' = parse_nyc_results(page)
    /\ UNCHANGED <<nvars, ovars, kind, flags, page, payload, out>>

\* parse_providence_results(text, search_address) on a free text
ParseProvidenceText ==
    /\ kind = "providence_text"
    /\ step = "scraped"
    /\ step' = "parsed"
    /\ result' = parse_providence_results(ProvidenceFeatures(page))
    /\ UNCHANGED <<nvars, ovars, kind, flags, page, payload, out>>

\* lookup_scc_tax.py main(): if args.callback: post_to_callback(args.callback, result)
PostScc ==
    /\ kind \in {"scc"}
    /\ step = "parsed"
    /\ step' = "normalized"
    /\ payload' = SccPayload(result)
    /\ UNCHANGED <<nvars, ovars, kind, flags, page, result, out>>

\* lookup_providence_tax.py main(): post_to_callback(args.callback, result)
PostProvidence ==
    /\ kind \in {"providence"}
    /\ step = "parsed"
    /\ step' = "normalized"
    /\ payload' = ProvidencePayload(result)
    /\ UNCHANGED <<nvars, ovars, kind, flags, page, result, out>>

\* lookup_vermont_tax.py main(): post_to_callback(args.callback, result, args.town)
PostVermont ==
    /\ kind \in {"dummerston", "brattleboro"}
    /\ step = "parsed"
    /\ step' = "normalized"
    /\ payload' = VermontPayload(result)
    /\ UNCHANGED <<nvars, ovars, kind, flags, page, result, out>>

ParseNext ==
    \/ ParseScc
    \/ ParseProvidence
    \/ ParseNemrc
    \/ ParseBrattleboro
    \/ ParseNyc
    \/ ParseNycBill
    \/ ParseNycResults
    \/ ParseProvidenceText
    \/ PostScc
    \/ PostProvidence
    \/ PostVermont

ParseSpec == ParseInit /\ [][ParseNext]_vars

(***************************************************************************)
(* Per-property state machine read off the orchestrator's state            *)
(***************************************************************************)
\* The full roster in configuration order, independent of --provider.
Roster == SelectedFrom(1, "none")

RosterPos(n) == CHOOSE k \in 1..Len(Roster) : Roster[k].name = n

SelectedNames == {q.name : q \in {SelectedFrom(1, provider)[k] : k \in 1..Len(SelectedFrom(1, provider))}}

OutcomesOf(n) == {k \in 1..Len(results) : results[k].name = n}

Terminal == {"SUCCEEDED", "FAILED", "TIMED_OUT"}

\* PENDING: the loop has not reached the property; RUNNING: main() is inside
\* run_scraper's subprocess.run for it; terminal: its outcome is in results.
StateOf(n) ==
    IF OutcomesOf(n) # {}
    THEN LET o == results[CHOOSE k \in OutcomesOf(n) : TRUE] IN
         IF o.data.error = TIMEOUT_ERROR THEN "TIMED_OUT"
         ELSE IF o.success THEN "SUCCEEDED" ELSE "FAILED"
    ELSE IF pc = "run" /\ total >= 1 /\ Cur.name = n THEN "RUNNING"
    ELSE "PENDING"

PostsOf(n) == {k \in 1..Len(posts) : posts[k].name = n}

Killed == {n \in PropNames : procs[n].status = "killed"}

LegalMove(a, b) ==
    \/ a = b
    \/ a = "PENDING" /\ b = "RUNNING"
    \/ a = "RUNNING" /\ b \in Terminal

StateMachineStep ==
    /\ \A n \in SelectedNames : LegalMove(StateOf(n), StateOf(n)')
    /\ \A n \in SelectedNames : Cardinality(OutcomesOf(n)') <= 1
    /\ pc' = "done" => \A n \in SelectedNames : StateOf(n)' \in Terminal

(***************************************************************************)
(* Claims                                                                  *)
(***************************************************************************)
\* C1 (as stated): in every run each selected property moves only
\* PENDING -> RUNNING -> one of SUCCEEDED / FAILED / TIMED_OUT, holds at most
\* one outcome, keeps it, and has one when the run is done.
C1_Original == [][StateMachineStep]_vars

\* C1 (amended): the same state machine in every run without --dry-run.
C1_StateMachine == [][~dry_run => StateMachineStep]_vars

C1_Witness ==
    /\ pc = "done" /\ ~dry_run
    /\ {StateOf(n) : n \in SelectedNames} = Terminal

\* C2: a property whose adapter was killed at the timeout has exactly one
\* outcome, a failure carrying the timeout error, and whatever adapters hang
\* the run reaches the summary with one outcome per selected property.
C2_TimeoutNeverStalls ==
    /\ [](\A n \in Killed :
             /\ Cardinality(OutcomesOf(n)) = 1
             /\ \A k \in OutcomesOf(n) :
                   ~results[k].success /\ results[k].data.error = TIMEOUT_ERROR)
    /\ <>(pc = "done" /\ Len(results) = Len(SelectedFrom(1, provider)))

C2_Witness == pc = "done" /\ Cardinality(Killed) >= 2 /\ Len(results) = 5

\* C3: a finished run in which exactly one adapter was killed at the timeout
\* has one outcome per selected property, exactly one of them timed out, and
\* every other outcome is the one its own adapter's execution determines.
C3_OneTimeout ==
    (pc = "done" /\ ~dry_run /\ Cardinality(Killed) = 1) =>
        /\ Len(results) = Len(SelectedFrom(1, provider))
        /\ Cardinality({k \in 1..Len(results) : results[k].data.error = TIMEOUT_ERROR}) = 1
        /\ \A k \in 1..Len(results) :
              LET p == procs[results[k].name] IN
              /\ results[k].name = SelectedFrom(1, provider)[k].name
              /\ p.status = "killed" <=> results[k].data.error = TIMEOUT_ERROR
              /\ p.status = "none" => results[k].data = ExceptionResult
              /\ p.status = "exited" => results[k].data = ParseOutput(p.stdout, p.returncode)

C3_Witness ==
    /\ pc = "done" /\ provider = "none" /\ Cardinality(Killed) = 1
    /\ \E k \in 1..Len(results) : results[k].success
    /\ results[2].data.error = TIMEOUT_ERROR

\* C4: an adapter subprocess is alive only for the property the orchestrator
\* is currently running, all earlier properties already have their outcome,
\* and no two adapters are alive together.
C4_Sequential ==
    /\ Cardinality({n \in PropNames : procs[n].status \in Alive}) <= 1
    /\ \A n \in PropNames :
          procs[n].status \in Alive =>
              /\ pc = "run" /\ Cur.name = n
              /\ Len(results) = total - 1
              /\ \A k \in 1..(total - 1) : StateOf(SelectedFrom(1, provider)[k].name) \in Terminal

C4_Witness ==
    /\ total >= 2
    /\ procs[Cur.name].status \in Alive
    /\ Len(results) = total - 1

\* C5: for an adapter that ran to completion (exit status 0) and printed its
\* JSON result, the recorded outcome has the success value of that JSON.
C5_OutcomeMatchesPayload ==
    \A k \in 1..Len(results) :
        LET p == procs[results[k].name] IN
        (p.status = "exited" /\ p.returncode = 0 /\ JsonStart(p.stdout) # 0) =>
            results[k].success = (p.stdout[JsonStart(p.stdout)] = "json_true")

\* C6: a property whose scrape succeeded and whose callback POST failed in any
\* way is recorded by the orchestrator with success = true.
C6_DeliveryIndependent ==
    \A j \in 1..Len(posts) :
        (posts[j].success /\ posts[j].resp # "200") =>
            \A k \in OutcomesOf(posts[j].name) : results[k].success

\* C7: in a finished run with --callback and without --dry-run exactly one
\* POST was attempted for every processed property.
C7_OnePostPerProperty ==
    (pc = "done" /\ callback = "valid" /\ ~dry_run) =>
        \A k \in 1..Len(results) : Cardinality(PostsOf(results[k].name)) = 1

C9_RosterOrder ==
    /\ \A k \in 1..Len(results) : results[k].name = SelectedFrom(1, provider)[k].name
    /\ \A i, j \in 1..Len(results) :
          i < j => RosterPos(results[i].name) < RosterPos(results[j].name)
    /\ \A i, j \in 1..Len(posts) :
          i < j => RosterPos(posts[i].name) <= RosterPos(posts[j].name)

C9_Witness ==
    /\ pc = "done" /\ provider = "none"
    /\ Len(posts) >= 3 /\ Len(results) = 5

\* C10: no property is POSTed twice; after a failed POST the run can still go
\* on, it ends with an outcome for every property, and every adapter that ran
\* to completion after the failure made its own POST attempt.
C10_AtMostOnce ==
    /\ \A n \in PropNames : Cardinality(PostsOf(n)) <= 1
    /\ (pc # "done" /\ \E j \in 1..Len(posts) : posts[j].resp # "200") =>
          \/ ENABLED Orchestrator
          \/ \E n \in PropNames : procs[n].status \in Alive
    /\ pc = "done" =>
          /\ Len(results) = Len(SelectedFrom(1, provider))
          /\ \A n \in SelectedNames :
                (callback = "valid" /\ procs[n].status = "exited" /\ procs[n].returncode = 0)
                    => Cardinality(PostsOf(n)) = 1

C10_Witness ==
    /\ pc = "done"
    /\ Len(posts) >= 3
    /\ posts[1].resp = "error" /\ posts[2].resp = "non200" /\ posts[3].resp = "200"

\* C11: whatever an adapter subprocess does, each step of the run leaves the
\* outcomes already recorded untouched and adds at most one, no property ever
\* has two outcomes, a property whose adapter ended abnormally (not launched,
\* killed, non-zero exit) has its outcome as soon as control is back in the
\* loop, and the finished run has exactly one outcome per selected property.
C11_Isolation ==
    [][/\ Len(results') <= Len(results) + 1
       /\ Len(results') >= Len(results)
       /\ \A k \in 1..Len(results) : results'[k] = results[k]
       /\ \A n \in PropNames : Cardinality(OutcomesOf(n)') <= 1
       /\ pc' = "loop" => Len(results') = total'
       /\ pc' = "done" =>
             /\ total' = Len(SelectedFrom(1, provider))
             /\ \A n \in SelectedNames : Cardinality(OutcomesOf(n)') = 1]_vars

C11_Witness ==
    /\ pc = "done" /\ provider = "none" /\ Len(results) = 5
    /\ procs["125 Dana Avenue"].status = "none"
    /\ procs["88 Williams St"].status = "killed"
    /\ procs["2055 Sunset Lake Rd"].status = "exited"
    /\ procs["2055 Sunset Lake Rd"].returncode = 1
    /\ JsonStart(procs["2055 Sunset Lake Rd"].stdout) = 0
    /\ procs["1910 Sunset Lake Rd"].status = "exited"
    /\ JsonStart(procs["1910 Sunset Lake Rd"].stdout) # 0
    /\ ~JsonLoads(procs["1910 Sunset Lake Rd"].stdout).ok
    /\ results[5].success

\* C15: under --dry-run no adapter subprocess is ever started, no POST is
\* made, one "would run" line has been printed per property visited, and the
\* finished run has printed one line per selected property.
C15_DryRun ==
    dry_run =>
        /\ \A n \in PropNames : procs[n].status = "none"
        /\ posts = <<>>
        /\ pc # "run"
        /\ would_run = total
        /\ pc = "done" => would_run = Len(SelectedFrom(1, provider))

C15_Witness ==
    /\ dry_run /\ pc = "done"
    /\ provider = "vermont_nemrc"
    /\ would_run = 3

\* Number of roster properties configured under provider p.
CountUnder(p) == Cardinality({k \in 1..Len(Roster) : Roster[k].provider = p})

\* C16: with --provider P only properties configured under P are ever started
\* or recorded, they are recorded in their configured order, and the finished
\* run attempted exactly the properties under P.
C16_ProviderFilter ==
    provider # "none" =>
        /\ \A n \in PropNames :
              procs[n].status # "none" => Roster[RosterPos(n)].provider = provider
        /\ pc = "run" => Roster[RosterPos(Cur.name)].provider = provider
        /\ \A k \in 1..Len(results) :
              /\ results[k].provider = provider
              /\ results[k].name = PROPERTIES[provider][k]
        /\ total <= CountUnder(provider)
        /\ pc = "done" => total = CountUnder(provider) /\ Len(results) = total

C16_Witness ==
    /\ provider = "vermont_nemrc" /\ ~dry_run /\ pc = "done"
    /\ total = 3
    /\ \A k \in 1..3 : procs[PROPERTIES["vermont_nemrc"][k]].status # "none"

\* C12: an error raised while scraping (inside the try block or inside its
\* except handler) never ends the adapter process: the lookup function goes on
\* to return, and what the handler returns has success = false and an error.
C12_ErrorsCaught ==
    [][/\ step \in {"try", "except"} => step' # "dead"
       /\ (step = "except" /\ step' = "returned") =>
             (~result'.success /\ result'.error # "")]_vars

\* C17: with --json every line on standard output belongs to the one JSON
\* document: nothing is printed before it or after it.
C17_JsonOnly ==
    flags.json =>
        /\ Len(out.stdout) <= 1
        /\ \A k \in 1..Len(out.stdout) : out.stdout[k] \in {"json_true", "json_false"}

\* C18: an adapter process that ended (other than on a malformed callback
\* URL) has exit status 0 exactly when its scrape attempt ran to completion,
\* found or not found, and a non-zero status when the attempt raised.
C18_ExitStatus ==
    (step \in {"exited", "dead"} /\ flags.callback # "malformed") =>
        (out.exit = 0 <=> (DOMAIN result # {} /\ result.error # "exception"))

\* The installment lists of the parser result, and the one of the payload.
ParserLists ==
    IF step = "scraped" THEN {}
    ELSE CASE kind = "scc" ->
                  IF result.tax_years = <<>> THEN {}
                  ELSE {result.tax_years[1][k].installments : k \in 1..Len(result.tax_years[1])}
           [] kind \in {"providence", "providence_text", "dummerston", "brattleboro"} ->
                  IF result.installments = <<>> THEN {} ELSE {result.installments[1]}
           [] OTHER -> {}

PayloadInstallments ==
    IF step = "normalized" /\ payload.installments # <<>> THEN payload.installments[1] ELSE <<>>

\* Whether the scraped page shows the queried property: its address or its
\* parcel / SPAN identifier.
Identified ==
    CASE kind = "scc" -> page.addr
      [] kind = "providence" -> page.parcel # <<>> \/ page.address
      [] kind = "dummerston" -> page.search # "none" /\ (page.span # <<>> \/ page.parcel_id # <<>>)
      [] kind = "brattleboro" -> page.found
      [] kind = "nyc" -> page.addr
      [] kind \in {"nyc_bill", "nyc_results"} ->
             \E k \in 1..Len(page) : page[k] = "123 MAIN STREET"
      [] OTHER -> FALSE

\* C13: a callback payload with success = true has at least one of
\* annual_tax, assessed_value and parcel_number populated.
C13_NoEmptySuccess ==
    (step = "normalized" /\ payload.success) =>
        \/ payload.annual_tax # <<>>
        \/ payload.assessed_value # <<>>
        \/ payload.parcel_number # <<>>

\* C14: when the scraped page identifies the queried property the result is
\* success = true, whatever amounts could or could not be parsed.
C14_FailsOnlyWithoutMatch ==
    (step # "scraped" /\ Identified) => result.success

\* C19: in every installment list with more than one entry, built by a parser
\* or sent in a callback payload, the k-th entry has the number k.
C19_NumbersAreOneToN ==
    /\ \A l \in ParserLists :
          Len(l) > 1 => \A k \in 1..Len(l) : l[k].number = k
    /\ Len(PayloadInstallments) > 1 =>
          \A k \in 1..Len(PayloadInstallments) : PayloadInstallments[k].installment_number = k

\* C20: in a payload with success = true, an annual_tax and a non-empty
\* installments list, the installment amounts add up to annual_tax (to within
\* one cent, which is 10 tenths of a cent).
C20_InstallmentsSumToAnnual ==
    (step = "normalized" /\ payload.success /\ payload.annual_tax # <<>>
        /\ PayloadInstallments # <<>>) =>
        LET d == SumAmounts(PayloadInstallments) - payload.annual_tax[1]
        IN d <= 10 /\ -d <= 10

\* The amounts the parser result holds: its annual tax and its installment amounts.
ResultHasAmounts ==
    \/ \E l \in ParserLists : l # <<>>
    \/ kind \in {"providence", "dummerston", "brattleboro"} /\ result.annual_tax # <<>>

\* C21: when the parser result holds no annual tax and no installment amount
\* (every failed scrape included), the payload's annual_tax is null, not a
\* number; assessed_value is populated only when the result holds a value.
C21_NoFabricatedAmount ==
    step = "normalized" =>
        /\ ~ResultHasAmounts => payload.annual_tax = <<>>
        /\ payload.assessed_value # <<>> =>
              (kind \in {"providence", "dummerston", "brattleboro"}
                  /\ result.total_assessed_value # <<>>)

\* The tax year the scraped text states, if it states one.
PageYear ==
    CASE kind = "scc" ->
             LET hs == SelectSeq(page.lines, LAMBDA l : YearMatch(l) # <<>>)
             IN IF hs = <<>> THEN <<>> ELSE <<YearStart(YearMatch(hs[1])[1])>>
      [] kind \in {"providence", "dummerston"} -> page.year
      [] OTHER -> <<>>

\* The 'note' of the record sent to the callback (inside raw_data), if any.
RecordNote ==
    CASE kind = "dummerston" /\ result.success ->
             <<"NEMRC shows assessed values only. Tax amounts require town tax rate.">>
      [] kind = "brattleboro" /\ result.success ->
             <<"Parcel found in AxisGIS - see screenshot for details">>
      [] kind = "brattleboro" /\ ~result.success ->
             <<"AxisGIS requires interactive map. Try: https://www.axisgis.com/BrattleboroVT/">>
      [] OTHER -> <<>>

\* C22: the payload's tax_year is the year the scraped text states; when the
\* text states none it is the current calendar year and the record carries an
\* "unverified" note.
C22_YearResolution ==
    step = "normalized" =>
        IF PageYear # <<>>
        THEN payload.tax_year = PageYear
        ELSE payload.tax_year = <<Now.year>> /\ RecordNote = <<"unverified">>

\* The keys of the canonical callback payload and of its installments.
CanonicalKeys ==
    {"provider", "property_id", "parcel_number", "address", "tax_year", "assessed_value",
     "annual_tax", "quarterly_amount", "owner", "installments", "success", "error", "raw_data"}

InstallmentKeys == {"installment_number", "amount", "due_date", "status"}

\* C23: every callback POST body has all keys of the canonical payload, and
\* every element of its installments has the four installment keys with a
\* status of paid, unpaid or unknown.
C23_CanonicalKeys ==
    step = "normalized" =>
        /\ CanonicalKeys \subseteq payload.keys
        /\ \A k \in 1..Len(PayloadInstallments) :
              /\ DOMAIN PayloadInstallments[k] = InstallmentKeys
              /\ PayloadInstallments[k].status \in {"paid", "unpaid", "unknown"}

\* Whether the first match of the named pattern is a number inside (0, limit).
Plausible(pat, text, limit) ==
    LET m == Search(pat, text)
    IN m # <<>> /\ Float(m[1]) # <<>> /\ Float(m[1])[1] > 0 /\ Float(m[1])[1] < limit

\* C24: an amount a parser accepts lies strictly between 0 and the parser's
\* limit (5000 for parse_nyc_bill, 100000 for parse_nyc_results); the amount
\* is absent exactly when no pattern's match is in range; the annual tax
\* parse_nemrc_property accepts is a plausible amount as well (above 0).
C24_PlausibleAmounts ==
    step = "parsed" =>
        /\ kind = "nyc_bill" =>
              /\ result.tax_amount # <<>> =>
                    (result.tax_amount[1] > 0 /\ result.tax_amount[1] < BillLimit)
              /\ result.tax_amount = <<>> <=>
                    \A k \in 1..Len(amount_patterns) : ~Plausible(amount_patterns[k], page, BillLimit)
        /\ kind = "nyc_results" =>
              /\ result.tax_amount # <<>> =>
                    (result.tax_amount[1] > 0 /\ result.tax_amount[1] < ResultsLimit)
              /\ result.tax_amount = <<>> <=>
                    \A k \in 1..Len(tax_patterns) : ~Plausible(tax_patterns[k], page, ResultsLimit)
        /\ kind = "dummerston" =>
              (result.annual_tax # <<>> => result.annual_tax[1] > 0)

\* The line occurs in the text.
Contains(text, line) == \E k \in 1..Len(text) : text[k] = line

\* The first line of the text that the pattern named pat matches, <<>> if none.
FirstHit(pat, text) ==
    LET hits == SelectSeq(text, LAMBDA l : LineMatch(pat, l) # <<>>)
    IN IF hits = <<>> THEN <<>> ELSE <<hits[1]>>

C28_OnlyMatchingRow ==
    (kind = "dummerston" /\ step # "scraped" /\ result.success) => page.search = "row"

\* The installment blocks printed on the page from line i on, in page order:
\* an "Installment n" line followed by "Tax Amount", a parseable amount and a
\* "Last Payment Date" line, each with the tax-year header that most recently
\* preceded it (<<>> before the first header).
RECURSIVE PageBlocks(_, _, _)
PageBlocks(lines, i, year) ==
    IF i > Len(lines) THEN <<>>
    ELSE IF YearMatch(lines[i]) # <<>> THEN PageBlocks(lines, i + 1, YearMatch(lines[i]))
    ELSE IF /\ lines[i] \in {"Installment 1", "Installment 2"}
            /\ i + 3 <= Len(lines)
            /\ lines[i + 1] = "Tax Amount"
            /\ Float(lines[i + 2]) # <<>>
            /\ lines[i + 3] = "Last Payment Date"
    THEN <<[tax_year |-> year,
            number |-> IF lines[i] = "Installment 1" THEN 1 ELSE 2,
            amount |-> Float(lines[i + 2])[1]]>> \o PageBlocks(lines, i + 4, year)
    ELSE PageBlocks(lines, i + 1, year)

\* Every "Tax Amount" line of the page comes right after an "Installment n" line.
AllHeaded(lines) ==
    \A i \in 1..Len(lines) :
        lines[i] = "Tax Amount" => (i > 1 /\ lines[i - 1] \in {"Installment 1", "Installment 2"})

\* The installments of result['tax_years'], flattened, each with its tax year.
ParsedBlocks(res) ==
    LET years == IF res.tax_years = <<>> THEN <<>> ELSE res.tax_years[1]
    IN Flatten([k \in 1..Len(years) |->
                   [j \in 1..Len(years[k].installments) |->
                       [tax_year |-> <<years[k].tax_year>>,
                        number |-> years[k].installments[j].number,
                        amount |-> years[k].installments[j].amount]]])

\* C29: the Santa Clara parser loses no installment: on a page whose blocks
\* all start with an installment header, the parsed result holds exactly the
\* blocks of the page (an amount of 0.00 included), each once, in page order,
\* under the tax-year header that most recently preceded it, also for blocks
\* before the first tax-year header.
C29_NoInstallmentLost ==
    (kind = "scc" /\ step # "scraped" /\ page.addr /\ AllHeaded(page.lines)) =>
        ParsedBlocks(result) = PageBlocks(page.lines, 1, <<>>)

\* The indices of the payment rows of the page with an amount > 0.
PositiveRows(rows) == {k \in 1..Len(rows) : Float(rows[k].amount) # <<>> /\ Float(rows[k].amount)[1] > 0}

\* The sum of the amounts of the rows with the indices in S.
RECURSIVE SumRows(_, _)
SumRows(rows, S) ==
    IF S = {} THEN 0
    ELSE LET k == CHOOSE j \in S : TRUE
         IN Float(rows[k].amount)[1] + SumRows(rows, S \ {k})

\* The greatest number of a non-empty set of years.
MaxYear(S) == CHOOSE y \in S : \A z \in S : z <= y

\* C30 (as stated): on a page with a positive payment row the result's tax_year is
\* the greatest tax year among the payment rows of the page, and tax_amount is
\* the sum of the positive amounts of the rows of that year.
C30_Original ==
    (kind = "nyc" /\ step = "parsed" /\ PositiveRows(page.rows) # {}) =>
        LET latest == MaxYear({page.rows[k].year : k \in 1..Len(page.rows)})
        IN /\ result.tax_year = <<latest>>
           /\ result.tax_amount =
                  <<SumRows(page.rows, {k \in PositiveRows(page.rows) : page.rows[k].year = latest})>>

\* C30 (amended): on a page with at least one payment row of positive amount,
\* tax_year is the greatest tax year among the rows with a positive amount,
\* tax_amount is the sum of the amounts of exactly the positive rows of that
\* year, and payments_by_year holds every positive row once, under its own
\* year, and no other row.
C30_LatestYearTotal ==
    (kind = "nyc" /\ step = "parsed" /\ PositiveRows(page.rows) # {}) =>
        LET pos == PositiveRows(page.rows)
            latest == MaxYear({page.rows[k].year : k \in pos})
        IN /\ result.success
           /\ result.tax_year = <<latest>>
           /\ result.tax_amount = <<SumRows(page.rows, {k \in pos : page.rows[k].year = latest})>>
           /\ DOMAIN result.payments_by_year = {page.rows[k].year : k \in pos}
           /\ \A y \in DOMAIN result.payments_by_year :
                  /\ result.payments_by_year[y].payments =
                         SelectSeq(page.rows, LAMBDA r : r.year = y /\ Float(r.amount)[1] > 0)
                  /\ result.payments_by_year[y].total =
                         SumRows(page.rows, {k \in pos : page.rows[k].year = y})

C30_Witness ==
    /\ kind = "nyc"
    /\ step = "parsed"
    /\ page.rows = <<[amount |-> "12.50", year |-> 2025],
                     [amount |-> "0.00", year |-> 2026],
                     [amount |-> "12.50", year |-> 2025]>>
    /\ result.tax_year = <<2025>>
    /\ result.tax_amount = <<25000>>

(***************************************************************************)
(* scripts/nest-auto-refresh-token.py: main() and the helpers it calls.    *)
(* Each step of main() is one action; what the browser, the Dropcam API,   *)
(* node, psql and Pushover answer is chosen by the environment.            *)
(***************************************************************************)
\* How extract_token_from_browser ends: it returns the token, page.goto
\* raises PlaywrightTimeout, NEST_LEGACY_EMAIL / NEST_LEGACY_PASSWORD is
\* unset (ValueError), or no token is found (RuntimeError).
ExtractOutcomes == {"token", "playwright_timeout", "credentials_unset", "not_found"}

\* What requests.get of the probe does: it raises (connection error, timeout)
\* or returns a response with a status code.
ProbeOutcomes ==
    {[raised |-> TRUE, status_code |-> 0]} \cup
    {[raised |-> FALSE, status_code |-> c] : c \in {200, 404, 401, 403, 302, 500}}

\* test_token_validity with every unrecognised answer taken as invalid.
test_token_validity_Strict(response) ==
    ~response.raised /\ response.status_code \in {200, 404}

\* test_token_validity(token): the value it returns for the probe's answer.
test_token_validity(response) ==
    IF response.raised THEN TRUE
    ELSE IF response.status_code \in {200, 404} THEN TRUE
    ELSE IF response.status_code \in {401, 403} THEN FALSE
    ELSE TRUE

\* How encrypt_token ends: node prints the ciphertext, TOKEN_ENCRYPTION_KEY is
\* unset (ValueError), node exits non-zero (CalledProcessError, re-raised as
\* RuntimeError), or node runs past 10 s (TimeoutExpired).
EncryptOutcomes == {"encrypted", "key_unset", "called_process_error", "timeout_expired"}

\* How one subprocess.run of psql ends: "rows" / "empty" is exit status 0 with
\* stdout non-empty / empty after strip().
PsqlOutcomes == {"rows", "empty", "called_process_error", "timeout_expired", "file_not_found"}

\* The runs update_database can make: DATABASE_URL unset (no run), docker exec
\* psql, and the direct psql only after docker was not found.
DbRuns ==
    {[docker |-> "no_url", psql |-> "not_run"]} \cup
    {[docker |-> d, psql |-> "not_run"] : d \in PsqlOutcomes \ {"file_not_found"}} \cup
    {[docker |-> "file_not_found", psql |-> q] : q \in PsqlOutcomes}

\* update_database that returns True whatever psql printed.
update_database_Unchecked(run) ==
    LET last == IF run.docker = "file_not_found" THEN run.psql ELSE run.docker
    IN CASE last = "no_url" -> [returned |-> FALSE, error |-> <<"DATABASE_URL not set">>]
         [] last \in {"rows", "empty"} -> [returned |-> TRUE, error |-> <<>>]
         [] last = "called_process_error" -> [returned |-> FALSE, error |-> <<"Database update failed">>]
         [] last = "timeout_expired" -> [returned |-> FALSE, error |-> <<"timed out">>]
         [] last = "file_not_found" -> [returned |-> FALSE, error |-> <<"No such file or directory">>]

\* update_database(encrypted_credentials): it returns True, or raises with the
\* message in error.
update_database(run) ==
    LET last == IF run.docker = "file_not_found" THEN run.psql ELSE run.docker
    IN CASE last = "no_url" -> [returned |-> FALSE, error |-> <<"DATABASE_URL not set">>]
         [] last = "rows" -> [returned |-> TRUE, error |-> <<>>]
         [] last = "empty" ->
                [returned |-> FALSE, error |-> <<"No nest_legacy credentials found in database">>]
         [] last = "called_process_error" -> [returned |-> FALSE, error |-> <<"Database update failed">>]
         [] last = "timeout_expired" -> [returned |-> FALSE, error |-> <<"timed out">>]
         [] last = "file_not_found" -> [returned |-> FALSE, error |-> <<"No such file or directory">>]

\* send_pushover_notification(title, message, priority): one requests.post per
\* configured user, delivered[k] telling whether the k-th one went through
\* (an exception of a post is caught and logged); nothing is posted when
\* Pushover is not configured.
send_pushover_notification(title, priority, delivered) ==
    [k \in 1..pushover |-> [title |-> title, priority |-> priority, delivered |-> delivered[k]]]

\* main() is entered; PUSHOVER_TOKEN and the two user keys are as configured.
RefreshInit ==
    /\ OrchIdle
    /\ AdapterIdle
    /\ pushover \in 0..2
    /\ refresh_pc = "extract"
    /\ token = <<>>
    /\ probe = <<>>
    /\ valid = <<>>
    /\ encrypted = <<>>
    /\ db = NoDb
    /\ handler = <<>>
    /\ notifications = <<>>
    /\ calls = <<>>
    /\ exit_code = <<>>

\* Step 1: token = extract_token_from_browser(interactive=interactive)
Extract ==
    /\ refresh_pc = "extract"
    /\ calls' = Append(calls, "extract")
    /\ \E o \in ExtractOutcomes :
          CASE o = "token" ->
                   /\ token' = <<"user_token">>
                   /\ refresh_pc' = "validate"
                   /\ handler' = handler
            [] o = "playwright_timeout" ->
                   /\ token' = token
                   /\ refresh_pc' = "except"
                   /\ handler' = <<[clause |-> "PlaywrightTimeout",
                                    error_msg |-> "Browser automation timeout"]>>
            [] o = "credentials_unset" ->
                   /\ token' = token
                   /\ refresh_pc' = "except"
                   /\ handler' = <<[clause |-> "Exception",
                                    error_msg |-> "NEST_LEGACY_EMAIL and NEST_LEGACY_PASSWORD must be set"]>>
            [] o = "not_found" ->
                   /\ token' = token
                   /\ refresh_pc' = "except"
                   /\ handler' = <<[clause |-> "Exception",
                                    error_msg |-> "user_token not found"]>>
    /\ UNCHANGED <<ovars, avars, pushover, probe, valid, encrypted, db, notifications, exit_code>>

\* Step 2: if not test_token_validity(token): raise RuntimeError(...)
Validate ==
    /\ refresh_pc = "validate"
    /\ calls' = Append(calls, "validate")
    /\ \E response \in ProbeOutcomes :
          /\ probe' = <<response>>
          /\ valid' = <<test_token_validity(response)>>
          /\ IF test_token_validity(response)
             THEN refresh_pc' = "encrypt" /\ handler' = handler
             ELSE /\ refresh_pc' = "except"
                  /\ handler' = <<[clause |-> "Exception",
                                   error_msg |-> "Extracted token is invalid"]>>
    /\ UNCHANGED <<ovars, avars, pushover, token, encrypted, db, notifications, exit_code>>

\* Steps 3 and 4: credentials_json = json.dumps(...); encrypted = encrypt_token(credentials_json)
Encrypt ==
    /\ refresh_pc = "encrypt"
    /\ calls' = Append(calls, "encrypt")
    /\ \E o \in EncryptOutcomes :
          IF o = "encrypted"
          THEN /\ encrypted' = <<"ciphertext">>
               /\ refresh_pc' = "update"
               /\ handler' = handler
          ELSE /\ encrypted' = encrypted
               /\ refresh_pc' = "except"
               /\ handler' = <<[clause |-> "Exception",
                                error_msg |-> CASE o = "key_unset" -> "TOKEN_ENCRYPTION_KEY not set"
                                                [] o = "called_process_error" -> "Encryption failed"
                                                [] o = "timeout_expired" -> "timed out"]>>
    /\ UNCHANGED <<ovars, avars, pushover, token, probe, valid, db, notifications, exit_code>>

\* Step 5: update_database(encrypted)
UpdateDatabase ==
    /\ refresh_pc = "update"
    /\ calls' = Append(calls, "update_database")
    /\ \E run \in DbRuns :
          /\ db' = run
          /\ IF update_database(run).returned
             THEN refresh_pc' = "notify" /\ handler' = handler
             ELSE /\ refresh_pc' = "except"
                  /\ handler' = <<[clause |-> "Exception",
                                   error_msg |-> update_database(run).error[1]]>>
    /\ UNCHANGED <<ovars, avars, pushover, token, probe, valid, encrypted, notifications, exit_code>>

\* Step 6: send_pushover_notification('Nest Token Auto-Refreshed', ..., priority=0); return 0
NotifySuccess ==
    /\ refresh_pc = "notify"
    /\ calls' = Append(calls, "notify")
    /\ \E delivered \in [1..pushover -> BOOLEAN] :
          notifications' = notifications \o send_pushover_notification("refreshed", 0, delivered)
    /\ exit_code' = <<0>>
    /\ refresh_pc' = "done"
    /\ UNCHANGED <<ovars, avars, pushover, token, probe, valid, encrypted, db, handler>>

\* except PlaywrightTimeout / except Exception: log the error,
\* send_pushover_notification('Nest Token Auto-Refresh Failed', ..., priority=1); return 1
NotifyFailure ==
    /\ refresh_pc = "except"
    /\ calls' = Append(calls, "notify")
    /\ \E delivered \in [1..pushover -> BOOLEAN] :
          notifications' = notifications \o send_pushover_notification("failed", 1, delivered)
    /\ exit_code' = <<1>>
    /\ refresh_pc' = "done"
    /\ UNCHANGED <<ovars, avars, pushover, token, probe, valid, encrypted, db, handler>>

RefreshNext ==
    \/ Extract
    \/ Validate
    \/ Encrypt
    \/ UpdateDatabase
    \/ NotifySuccess
    \/ NotifyFailure

RefreshSpec == RefreshInit /\ [][RefreshNext]_vars

\* The steps of main() before the notification, in program order.
Steps == <<"extract", "validate", "encrypt", "update_database">>

\* s is an initial segment of t.
IsPrefix(s, t) == Len(s) <= Len(t) /\ SubSeq(t, 1, Len(s)) = s

\* The steps begun so far, the notification left out.
StepsBegun ==
    IF calls # <<>> /\ calls[Len(calls)] = "notify" THEN SubSeq(calls, 1, Len(calls) - 1) ELSE calls

\* The last psql run exited with status 0 and non-empty output: update_database
\* returned True.
UpdateSucceeded == (IF db.docker = "file_not_found" THEN db.psql ELSE db.docker) = "rows"

\* C26: test_token_validity returns False only when the probe answers HTTP
\* 401 or 403 and True for every other status code and for every request
\* error; after True the flow goes on to encrypt (and store) the token, after
\* False nothing is encrypted or stored.
C26_AssumesValid ==
    probe # <<>> =>
        /\ valid = <<~(~probe[1].raised /\ probe[1].status_code \in {401, 403})>>
        /\ (valid = <<TRUE>> /\ calls[Len(calls)] = "validate") => refresh_pc = "encrypt"
        /\ valid = <<FALSE>> =>
              /\ refresh_pc \in {"except", "done"}
              /\ encrypted = <<>>
              /\ db = NoDb
              /\ exit_code # <<0>>

C26_Witness ==
    /\ probe # <<>>
    /\ probe[1].raised
    /\ encrypted # <<>>
    /\ UpdateSucceeded
    /\ exit_code = <<0>>

\* C27: the steps run in the order extract, validate, encrypt, update
\* database, notify; the database update is attempted only with a token
\* extracted, test_token_validity True and the ciphertext at hand; main
\* returns 0 only if update_database returned True; after a failure no later step
\* is begun, the failure notification is sent (to every configured user) and
\* main returns 1, whether or not a notification was delivered.
C27_StepOrder ==
    /\ IsPrefix(StepsBegun, Steps)
    /\ Contains(calls, "notify") <=> refresh_pc = "done"
    /\ Contains(calls, "update_database") =>
          token # <<>> /\ valid = <<TRUE>> /\ encrypted # <<>>
    /\ exit_code = <<0>> => (UpdateSucceeded /\ handler = <<>> /\ StepsBegun = Steps)
    /\ handler # <<>> =>
          /\ refresh_pc \in {"except", "done"}
          /\ ~UpdateSucceeded
          /\ token = <<>> => StepsBegun = <<"extract">>
          /\ valid = <<FALSE>> => StepsBegun = <<"extract", "validate">>
          /\ encrypted = <<>> => ~Contains(calls, "update_database")
    /\ refresh_pc = "done" =>
          /\ exit_code = IF handler = <<>> THEN <<0>> ELSE <<1>>
          /\ Len(notifications) = pushover
          /\ \A k \in 1..Len(notifications) :
                /\ notifications[k].title = IF handler = <<>> THEN "refreshed" ELSE "failed"
                /\ notifications[k].priority = IF handler = <<>> THEN 0 ELSE 1

C27_Witness ==
    /\ refresh_pc = "done"
    /\ db = [docker |-> "file_not_found", psql |-> "empty"]
    /\ calls = Steps \o <<"notify">>
    /\ Len(notifications) = 2
    /\ ~notifications[1].delivered
    /\ notifications[2].delivered
    /\ exit_code = <<1>>
====
